---------------------------- MODULE Spec2Model ----------------------------
(***************************************************************************)
(* State-machine model of federatedml/secureprotol/fate_ckks.py: the CKKS  *)
(* key pair, the public and private key objects and CKKSEncryptedVector    *)
(* with its arithmetic, depth counter, transparent-ciphertext recovery and *)
(* pickling.  tenseal is the cryptographic backend: its contexts and       *)
(* CKKSVector objects are modelled by what the wrapper can observe of them *)
(* (key material held, slot values, consumed levels, raised exceptions).   *)
(* Real slot values are abstracted to the ring of integers modulo Modulus. *)
(***************************************************************************)
EXTENDS Integers, Sequences, FiniteSets, TLC

VARIABLES ctxs,      \* heap of tenseal Context objects, by identity
          pubKeys,   \* CKKSPublicKey instances
          privKeys,  \* CKKSPrivateKey instances
          cts,       \* heap of tenseal CKKSVector objects, by identity
          evs,       \* CKKSEncryptedVector instances, by identity
          origin,    \* per instance: the plaintext handed to encrypt (history)
          wire,      \* pickled states in flight between parties
          last,      \* the last call: operands, snapshot before it, outcome
          thr,       \* the threads of the concurrent run
          run        \* the set-up of the concurrent run

vars == <<ctxs, pubKeys, privKeys, cts, evs, origin, wire, last, thr, run>>

--------------------------------------------------------------------------
(* Bounds *)

Modulus == 2
MaxVec == 3
MaxLen == 2
MaxCtx == 3
MaxWire == 1

(* Program constant: the default modulus chain [60, 40, 40, 60] leaves two *)
(* multiplicative levels.                                                  *)
ChainLevels == 2

Val == 0 .. (Modulus - 1)
Units == {k \in Val : \E r \in Val : (k * r) % Modulus = 1}
Recip(k) == CHOOSE r \in Val : (k * r) % Modulus = 1

Max2(m, n) == IF m >= n THEN m ELSE n

--------------------------------------------------------------------------
(* Exceptions.  NoExc is a call that returns.                              *)

TransparentMsg == "result ciphertext is transparent"
Exc(t, m) == [type |-> t, msg |-> m]
NoExc == Exc("none", "")
TransparentFault == Exc("RuntimeError", TransparentMsg)
OtherRuntime == Exc("RuntimeError", "other")
ScaleOutOfBound == Exc("ValueError", "scale out of bound")
TransparentValueError == Exc("ValueError", TransparentMsg)
BackendExc == {TransparentFault, OtherRuntime, ScaleOutOfBound, TransparentValueError}
Outcome == BackendExc \cup {NoExc}

(* The outcomes of the at most four backend calls of one handler: a call   *)
(* after one that raised is only made when the first raised the fault the  *)
(* handler catches, so the schedules that differ elsewhere are the same.   *)
Scheds ==
  {[i \in 1 .. 4 |-> IF i = 1 THEN o ELSE NoExc] : o \in Outcome}
    \cup {[i \in 1 .. 4 |-> IF i = 1 THEN TransparentFault ELSE IF i = j THEN e ELSE NoExc] :
             j \in 2 .. 4, e \in BackendExc}

(* A slip in the test of the message: every RuntimeError counts as the     *)
(* transparent-ciphertext fault.                                           *)
any_runtime_error(e) == e.msg = e.msg

is_transparent_ciphertext_error(e) == e.msg = TransparentMsg


--------------------------------------------------------------------------
(* The backend: tenseal contexts.                                          *)

(* ts.context(...): a fresh context holds the secret key, the public key   *)
(* and the relinearization keys; no galois keys are generated.             *)
ts_context == [secret |-> TRUE, public |-> TRUE, relin |-> TRUE, galois |-> FALSE]

is_public(c) == ~c.secret
is_private(c) == c.secret

(* Context.make_context_public(): drops the secret key, in place.          *)
make_context_public(c) == [c EXCEPT !.secret = FALSE]

(* Context.serialize(save_public_key, save_secret_key, save_relin_keys,    *)
(* save_galois_keys): the bytes hold what the context has and is asked for *)
serialize(c, sp, ss, sr, sg) ==
  [public |-> c.public /\ sp, secret |-> c.secret /\ ss,
   relin |-> c.relin /\ sr, galois |-> c.galois /\ sg]

(* ts.context_from(bytes): a context holding what the bytes hold.          *)
context_from(b) ==
  [secret |-> b.secret, public |-> b.public, relin |-> b.relin, galois |-> b.galois]

--------------------------------------------------------------------------
(* The backend: CKKSVector values [val, lvl]: the slots and the number of  *)
(* levels of the modulus chain the ciphertext has consumed.                *)

NonReal == 0 - 1

SizeMismatch == Exc("ValueError", "can't broadcast operands of different sizes")
EmptyVector == Exc("ValueError", "Attempting to encrypt an empty vector")
NoKey == Exc("ValueError", "the context lacks the key")
NoVec == [val |-> <<>>, lvl |-> 0]

Apply(op, u, v) ==
  CASE op = "add" -> (u + v) % Modulus
    [] op = "sub" -> (u + Modulus - v) % Modulus
    [] op = "mul" -> (u * v) % Modulus

Slot(x, i) == IF Len(x) = 1 THEN x[1] ELSE x[i]

ElemOp(op, x, y) ==
  [i \in 1 .. Max2(Len(x), Len(y)) |-> Apply(op, Slot(x, i), Slot(y, i))]

(* A plaintext operand: a scalar or a sequence, at level 0.                *)
PlainVec(p) == [val |-> p.v, lvl |-> 0]

(* ts.ckks_vector(context, values) with outcome o of the backend.          *)
ckks_vector(c, values, o) ==
  IF o # NoExc THEN [exc |-> o, v |-> NoVec]
  ELSE IF ~c.public THEN [exc |-> NoKey, v |-> NoVec]
  ELSE IF Len(values) = 0 THEN [exc |-> EmptyVector, v |-> NoVec]
  ELSE [exc |-> NoExc, v |-> [val |-> values, lvl |-> 0]]

(* x + y, x - y, x * y of the backend, each a new CKKSVector: operands of  *)
(* different levels are aligned to the deeper one, a multiplication        *)
(* consumes one more level and fails once the chain is used up.            *)
ckks_op(op, x, y, o) ==
  IF o # NoExc THEN [exc |-> o, v |-> NoVec]
  ELSE IF Len(x.val) # Len(y.val) /\ Len(x.val) # 1 /\ Len(y.val) # 1
       THEN [exc |-> SizeMismatch, v |-> NoVec]
  ELSE IF op = "mul" /\ Max2(x.lvl, y.lvl) >= ChainLevels
       THEN [exc |-> ScaleOutOfBound, v |-> NoVec]
  ELSE [exc |-> NoExc,
        v |-> [val |-> ElemOp(op, x.val, y.val),
               lvl |-> Max2(x.lvl, y.lvl) + (IF op = "mul" THEN 1 ELSE 0)]]

(* x += y and x -= y of the backend on the object xid of the heap c.  The  *)
(* backend computes into x and only then checks the result: when it raises *)
(* x may or may not already hold the result (partial).                     *)
ckks_iop(op, c, xid, y, o, partial) ==
  LET r == ckks_op(op, c[xid], y, NoExc)
  IN  IF r.exc # NoExc THEN [exc |-> r.exc, cts |-> c]
      ELSE IF o # NoExc
           THEN [exc |-> o, cts |-> IF partial THEN [c EXCEPT ![xid] = r.v] ELSE c]
      ELSE [exc |-> NoExc, cts |-> [c EXCEPT ![xid] = r.v]]

(* CKKSVector.decrypt(secret_key): the slots.                              *)
ckks_decrypt(x, c, o) ==
  IF o # NoExc THEN [exc |-> o, val |-> <<>>]
  ELSE IF ~c.secret THEN [exc |-> NoKey, val |-> <<>>]
  ELSE [exc |-> NoExc, val |-> x.val]

--------------------------------------------------------------------------
(* Object identity.  An instance of CKKSEncryptedVector is its index in    *)
(* evs; its fields are [ct, ctx, depth], ct and ctx being references.  A   *)
(* CKKSVector no instance refers to any more is garbage; the live ones are *)
(* named 1, 2, ... in the order of the first instance referring to them.   *)

FreshId(c) == Len(c) + 1

FirstRef(e, cid) == CHOOSE j \in 1 .. Len(e) : e[j].ct = cid /\ \A k \in 1 .. (j - 1) : e[k].ct # cid

NewName(e, cid) == Cardinality({e[j].ct : j \in 1 .. FirstRef(e, cid)})

Collect(e, c) ==
  LET live == {e[j].ct : j \in 1 .. Len(e)}
      old(n) == CHOOSE cid \in live : NewName(e, cid) = n
  IN  [evs |-> [i \in 1 .. Len(e) |-> [e[i] EXCEPT !.ct = NewName(e, e[i].ct)]],
       cts |-> [n \in 1 .. Cardinality(live) |-> c[old(n)]]]

(* What a handler leaves: the heaps, the instance it returns (0: none),    *)
(* the exception it raises (NoExc: none) and the outcomes of the backend   *)
(* calls it made, in order.                                                *)
Result(e, c, r, x, tr) ==
  LET g == Collect(e, c)
  IN  [evs |-> g.evs, cts |-> g.cts, ret |-> r, exc |-> x, calls |-> tr]

Ct(i) == [kind |-> "ct", id |-> i, v |-> <<>>]
Plain(p) == [kind |-> "plain", id |-> 0, v |-> p]

--------------------------------------------------------------------------
(* CKKSEncryptedVector: the handlers.  H is the heap [ctxs, evs, cts], fs  *)
(* the outcomes of the backend calls the handler makes, in order.          *)

(* CKKSEncryptedVector(encrypted_vector, context, depth): a new instance.  *)
NewVector(e, c, value, ctx, depth) ==
  [evs |-> Append(e, [ct |-> FreshId(c), ctx |-> ctx, depth |-> depth]),
   cts |-> Append(c, value)]

(* self.__encrypted_vector = value: the field refers to a new CKKSVector.  *)
Rebind(e, c, self, value) ==
  [evs |-> [e EXCEPT ![self].ct = FreshId(c)], cts |-> Append(c, value)]

(* The body shared by __add__ ("add") and __sub__ ("sub").  The first      *)
(* attempt of __add__ is self.__encrypted_vector += ..., in place; that of *)
(* __sub__ builds self.__encrypted_vector - ... and assigns it.            *)
Accumulate(op, H, self, other, fs, partial) ==
  LET x == H.evs[self].ct
  IN  IF other.kind = "ct"
      THEN
        LET y == H.evs[other.id].ct
            first == IF op = "add"
                     THEN ckks_iop("add", H.cts, x, H.cts[y], fs[1], partial)
                     ELSE LET r == ckks_op("sub", H.cts[x], H.cts[y], fs[1])
                          IN  [exc |-> r.exc, cts |-> H.cts, v |-> r.v]
            done == IF op = "add"
                    THEN [evs |-> H.evs, cts |-> first.cts]
                    ELSE Rebind(H.evs, H.cts, self, first.v)
        IN  IF first.exc = NoExc
            THEN Result(done.evs, done.cts, self, NoExc, <<NoExc>>)
            ELSE IF first.exc.type # "RuntimeError"
            THEN Result(H.evs, first.cts, 0, first.exc, <<first.exc>>)
            ELSE IF ~is_transparent_ciphertext_error(first.exc)
            THEN Result(H.evs, first.cts, 0, first.exc, <<first.exc>>)
            ELSE
              LET zero == ckks_vector(H.ctxs[H.evs[other.id].ctx], <<0>>, fs[2])
                  tmp == ckks_op("add", first.cts[y], zero.v, fs[3])
                  again == ckks_iop(op, first.cts, x, tmp.v, fs[4], partial)
              IN  IF zero.exc # NoExc
                  THEN Result(H.evs, first.cts, 0, zero.exc, <<first.exc, zero.exc>>)
                  ELSE IF tmp.exc # NoExc
                  THEN Result(H.evs, first.cts, 0, tmp.exc,
                              <<first.exc, NoExc, tmp.exc>>)
                  ELSE IF again.exc # NoExc
                  THEN Result(H.evs, again.cts, 0, again.exc,
                              <<first.exc, NoExc, NoExc, again.exc>>)
                  ELSE Result(H.evs, again.cts, self, NoExc,
                              <<first.exc, NoExc, NoExc, NoExc>>)
      ELSE
        LET r == IF op = "add"
                 THEN ckks_iop("add", H.cts, x, PlainVec(other), fs[1], partial)
                 ELSE LET q == ckks_op("sub", H.cts[x], PlainVec(other), fs[1])
                      IN  [exc |-> q.exc, cts |-> H.cts, v |-> q.v]
            done == IF op = "add"
                    THEN [evs |-> H.evs, cts |-> r.cts]
                    ELSE Rebind(H.evs, H.cts, self, r.v)
        IN  IF r.exc = NoExc
            THEN Result(done.evs, done.cts, self, NoExc, <<NoExc>>)
            ELSE Result(H.evs, r.cts, 0, r.exc, <<r.exc>>)

__add__(H, self, other, fs, partial) == Accumulate("add", H, self, other, fs, partial)

__radd__(H, self, other, fs, partial) == __add__(H, self, other, fs, partial)

(* A slip: the difference is wrapped in a new instance and self is kept.   *)
sub_returns_new(H, self, other, fs, partial) ==
  LET r == ckks_op("sub", H.cts[H.evs[self].ct],
                   IF other.kind = "ct" THEN H.cts[H.evs[other.id].ct] ELSE PlainVec(other),
                   fs[1])
      done == NewVector(H.evs, H.cts, r.v, H.evs[self].ctx, H.evs[self].depth)
  IN  IF r.exc = NoExc
      THEN Result(done.evs, done.cts, Len(done.evs), NoExc, <<NoExc>>)
      ELSE Result(H.evs, H.cts, 0, r.exc, <<r.exc>>)

__sub__(H, self, other, fs, partial) == Accumulate("sub", H, self, other, fs, partial)

(* other - self: the difference is assigned to self's own field and self   *)
(* is returned; nothing is caught.                                         *)
__rsub__(H, self, other, fs) ==
  LET x == H.evs[self].ct
      r == IF other.kind = "ct"
           THEN ckks_op("sub", H.cts[H.evs[other.id].ct], H.cts[x], fs[1])
           ELSE ckks_op("sub", PlainVec(other), H.cts[x], fs[1])
      done == Rebind(H.evs, H.cts, self, r.v)
  IN  IF r.exc = NoExc
      THEN Result(done.evs, done.cts, self, NoExc, <<NoExc>>)
      ELSE Result(H.evs, H.cts, 0, r.exc, <<r.exc>>)

(* The depth of a product (depth=self.__depth + 1) and of a fresh vector   *)
(* (depth=0, the constructor's default).                                   *)
mul_depth_unchanged(d) == d

mul_depth(d) == d + 1

initial_depth_one == 0 + 1

initial_depth == 0

(* self * other: a new instance at depth self.depth + 1; a ValueError is   *)
(* logged and raised again, any other exception passes through.            *)
(* A slip: the product is computed into self and self is returned.         *)
mul_in_place(H, self, other, fs) ==
  LET x == H.evs[self].ct
      r == ckks_iop("mul", H.cts, x,
                    IF other.kind = "ct" THEN H.cts[H.evs[other.id].ct] ELSE PlainVec(other),
                    fs[1], FALSE)
  IN  IF r.exc = NoExc
      THEN Result([H.evs EXCEPT ![self].depth = @ + 1], r.cts, self, NoExc, <<NoExc>>)
      ELSE Result(H.evs, H.cts, 0, r.exc, <<r.exc>>)

__mul__(H, self, other, fs) ==
  LET x == H.evs[self].ct
      r == IF other.kind = "ct"
           THEN ckks_op("mul", H.cts[x], H.cts[H.evs[other.id].ct], fs[1])
           ELSE ckks_op("mul", H.cts[x], PlainVec(other), fs[1])
      done == NewVector(H.evs, H.cts, r.v, H.evs[self].ctx, mul_depth(H.evs[self].depth))
  IN  IF r.exc = NoExc
      THEN Result(done.evs, done.cts, Len(done.evs), NoExc, <<NoExc>>)
      ELSE Result(H.evs, H.cts, 0, r.exc, <<r.exc>>)

__rmul__(H, self, other, fs) == __mul__(H, self, other, fs)

ZeroDivision == Exc("ZeroDivisionError", "division by zero")
NoReciprocal == Exc("TypeError", "unsupported operand type(s) for /")

(* self / other == self * (1/other): 1/other fails before the backend is   *)
(* called when other is 0 or is not a number.                              *)
__truediv__(H, self, other, fs) ==
  IF other.kind = "ct" THEN Result(H.evs, H.cts, 0, NoReciprocal, <<>>)
  ELSE IF other.v[1] = 0 THEN Result(H.evs, H.cts, 0, ZeroDivision, <<>>)
  ELSE __mul__(H, self, Plain(<<Recip(other.v[1])>>), fs)

--------------------------------------------------------------------------
(* The keys.  A key object is the reference to the context it holds.       *)

NotPublic == Exc("ValueError", "public_context is not a public context")
NotPrivate == Exc("TypeError", "context should be a tenseal Context object")
NotReal == Exc("ValueError", "values should only contain real number")

CKKSPublicKey_init(c) == IF ~is_public(c) THEN NotPublic ELSE NoExc

CKKSPrivateKey_init(c) == IF ~is_private(c) THEN NotPrivate ELSE NoExc

(* A slip: the private key is given the context itself, not a copy of it.  *)
generate_keypair_no_copy(C, o) ==
  LET context == Len(C) + 1
      C1 == Append(C, ts_context)
      e1 == CKKSPrivateKey_init(C1[context])
      C3 == [C1 EXCEPT ![context] = make_context_public(@)]
      e2 == CKKSPublicKey_init(C3[context])
  IN  IF o # NoExc THEN [ctxs |-> C, pub |-> 0, priv |-> 0, exc |-> o]
      ELSE IF e1 # NoExc THEN [ctxs |-> C, pub |-> 0, priv |-> 0, exc |-> e1]
      ELSE IF e2 # NoExc THEN [ctxs |-> C, pub |-> 0, priv |-> 0, exc |-> e2]
      ELSE [ctxs |-> C3, pub |-> context, priv |-> context, exc |-> NoExc]

(* generate_keypair on the context heap C; o is the outcome of ts.context. *)
(* The private key holds a copy taken before the context is made public,   *)
(* the public key the context itself.                                      *)
generate_keypair(C, o) ==
  LET context == Len(C) + 1
      copy == Len(C) + 2
      C1 == Append(C, ts_context)
      C2 == Append(C1, C1[context])
      e1 == CKKSPrivateKey_init(C2[copy])
      C3 == [C2 EXCEPT ![context] = make_context_public(@)]
      e2 == CKKSPublicKey_init(C3[context])
  IN  IF o # NoExc THEN [ctxs |-> C, pub |-> 0, priv |-> 0, exc |-> o]
      ELSE IF e1 # NoExc THEN [ctxs |-> C, pub |-> 0, priv |-> 0, exc |-> e1]
      ELSE IF e2 # NoExc THEN [ctxs |-> C, pub |-> 0, priv |-> 0, exc |-> e2]
      ELSE [ctxs |-> C3, pub |-> context, priv |-> copy, exc |-> NoExc]

CKKSPublicKey_getstate(c) == serialize(c, TRUE, FALSE, TRUE, FALSE)

CKKSPublicKey_setstate(state) == context_from(state)

CKKSPrivateKey_getstate(c) == serialize(c, FALSE, TRUE, TRUE, FALSE)

CKKSPrivateKey_setstate(state) == context_from(state)

(* An input of encrypt: a scalar (data a number) or a sequence (data a     *)
(* sequence), as __is_scalar tells them apart.                             *)
Scalar(x) == [kind |-> "scalar", data |-> x]
Vector(xs) == [kind |-> "seq", data |-> xs]
NoValue == [kind |-> "none", data |-> <<>>]

is_scalar(in) == in.kind = "scalar"

only_real_number(values) == \A i \in 1 .. Len(values) : values[i] # NonReal

(* CKKSPublicKey.encrypt(values) by the key holding context pk.            *)
encrypt(H, pk, in, o) ==
  LET values == IF is_scalar(in) THEN <<in.data>> ELSE in.data
      r == ckks_vector(H.ctxs[pk], values, o)
      done == NewVector(H.evs, H.cts, r.v, pk, initial_depth)
  IN  IF ~only_real_number(values) THEN Result(H.evs, H.cts, 0, NotReal, <<>>)
      ELSE IF r.exc # NoExc THEN Result(H.evs, H.cts, 0, r.exc, <<r.exc>>)
      ELSE Result(done.evs, done.cts, Len(done.evs), NoExc, <<NoExc>>)

(* A slip: the decrypted sequence is returned whatever its length.         *)
decrypt_keeps_sequence(H, sk, v, o) ==
  LET r == ckks_decrypt(H.cts[H.evs[v].ct], H.ctxs[sk], o)
  IN  [exc |-> r.exc, calls |-> <<r.exc>>,
       value |-> IF r.exc # NoExc THEN NoValue ELSE Vector(r.val)]

(* CKKSPrivateKey.decrypt(encrypted_vector) by the key holding context sk. *)
decrypt(H, sk, v, o) ==
  LET r == ckks_decrypt(H.cts[H.evs[v].ct], H.ctxs[sk], o)
  IN  [exc |-> r.exc, calls |-> <<r.exc>>,
       value |-> IF r.exc # NoExc THEN NoValue
                 ELSE IF Len(r.val) = 1 THEN Scalar(r.val[1])
                 ELSE Vector(r.val)]

(* CKKSEncryptedVector.__getstate__ / __setstate__.                        *)
CKKSEncryptedVector_getstate(H, v) ==
  [vec |-> H.cts[H.evs[v].ct],
   ctx |-> serialize(H.ctxs[H.evs[v].ctx], TRUE, FALSE, TRUE, FALSE),
   depth |-> H.evs[v].depth]

CKKSEncryptedVector_setstate(H, state) ==
  LET C == Append(H.ctxs, context_from(state.ctx))
      done == NewVector(H.evs, H.cts, state.vec, Len(C), state.depth)
  IN  [ctxs |-> C, evs |-> done.evs, cts |-> done.cts]

--------------------------------------------------------------------------
(* The calls, one action each.                                             *)

Heap == [ctxs |-> ctxs, evs |-> evs, cts |-> cts]

One(o) == [i \in 1 .. 4 |-> IF i = 1 THEN o ELSE NoExc]

Shape(in) == [kind |-> in.kind, len |-> IF is_scalar(in) THEN 1 ELSE Len(in.data)]
Derived == [kind |-> "derived", len |-> 0]

NoCall ==
  [op |-> "none", self |-> 0, other |-> Plain(<<>>), input |-> NoValue,
   pre |-> [evs |-> <<>>, cts |-> <<>>], ret |-> 0, exc |-> NoExc,
   calls |-> <<>>, value |-> NoValue]

Note(op, self, other, r) ==
  [NoCall EXCEPT !.op = op, !.self = self, !.other = other,
                 !.pre = [evs |-> evs, cts |-> cts],
                 !.ret = r.ret, !.exc = r.exc, !.calls = r.calls]

Threads == {1, 2}
Idle == [t \in Threads |-> [pc |-> "idle", x |-> 0, y |-> 0, z |-> 0, ret |-> 0, prod |-> 0]]
NoRun == [ops |-> <<"none", "none">>, locked |-> FALSE, lock |-> 0, phase |-> "none",
          a0 |-> 0, b0 |-> <<0, 0>>]

Operands == {Ct(i) : i \in 1 .. Len(evs)} \cup {Plain(<<v>>) : v \in Val}
PlainOperands == {Plain(<<v>>) : v \in Val}
ScalarInputs == {Scalar(x) : x \in Val \cup {NonReal}}

Encrypt(k, in, o) ==
  /\ last = NoCall
  /\ Len(evs) < MaxVec
  /\ LET r == encrypt(Heap, pubKeys[k], in, o)
     IN  /\ evs' = r.evs
         /\ cts' = r.cts
         /\ origin' = IF r.exc = NoExc THEN Append(origin, Shape(in)) ELSE origin
         /\ last' = [Note("encrypt", 0, Plain(<<>>), r) EXCEPT !.input = in]
  /\ UNCHANGED <<ctxs, pubKeys, privKeys, wire, thr, run>>

(* The caller lets go of what the call returned or raised.                 *)
Forget ==
  /\ last # NoCall
  /\ last' = NoCall
  /\ UNCHANGED <<ctxs, pubKeys, privKeys, cts, evs, origin, wire, thr, run>>

Decrypt(k, v, o) ==
  /\ last = NoCall
  /\ LET r == decrypt(Heap, privKeys[k], v, o)
     IN  last' = [NoCall EXCEPT !.op = "decrypt", !.self = v,
                                !.pre = [evs |-> evs, cts |-> cts],
                                !.exc = r.exc, !.calls = r.calls, !.value = r.value]
  /\ UNCHANGED <<ctxs, pubKeys, privKeys, cts, evs, origin, wire, thr, run>>

(* A call that keeps the number of instances.                              *)
InPlaceCall(op, self, other, r) ==
  /\ last = NoCall
  /\ evs' = r.evs
  /\ cts' = r.cts
  /\ last' = Note(op, self, other, r)
  /\ UNCHANGED <<ctxs, pubKeys, privKeys, origin, wire, thr, run>>

(* A call that may return a new instance.                                  *)
NewCall(op, self, other, r) ==
  /\ last = NoCall
  /\ Len(evs) < MaxVec
  /\ evs' = r.evs
  /\ cts' = r.cts
  /\ origin' = IF r.exc = NoExc THEN Append(origin, Derived) ELSE origin
  /\ last' = Note(op, self, other, r)
  /\ UNCHANGED <<ctxs, pubKeys, privKeys, wire, thr, run>>

Add(self, other, S) ==
  /\ last = NoCall
  /\ \E partial \in BOOLEAN :
    \/ /\ other.kind = "ct"
       /\ \E fs \in S :
            InPlaceCall("add", self, other, __add__(Heap, self, other, fs, partial))
    \/ /\ other.kind = "plain"
       /\ \E fs \in {f \in S : \A i \in 2 .. 4 : f[i] = NoExc} :
            InPlaceCall("add", self, other, __add__(Heap, self, other, fs, partial))

RAdd(self, other) ==
  /\ last = NoCall
  /\ \E partial \in BOOLEAN, o \in Outcome :
    InPlaceCall("radd", self, other, __radd__(Heap, self, other, One(o), partial))

Sub(self, other, S) ==
  /\ last = NoCall
  /\ \E partial \in BOOLEAN :
    \/ /\ other.kind = "ct"
       /\ \E fs \in S :
            InPlaceCall("sub", self, other, __sub__(Heap, self, other, fs, partial))
    \/ /\ other.kind = "plain"
       /\ \E fs \in {f \in S : \A i \in 2 .. 4 : f[i] = NoExc} :
            InPlaceCall("sub", self, other, __sub__(Heap, self, other, fs, partial))

RSub(self, other) ==
  /\ last = NoCall
  /\ \E o \in Outcome :
    InPlaceCall("rsub", self, other, __rsub__(Heap, self, other, One(o)))

Mul(self, other, O) ==
  /\ last = NoCall
  /\ \E o \in O : NewCall("mul", self, other, __mul__(Heap, self, other, One(o)))

RMul(self, other) ==
  /\ last = NoCall
  /\ \E o \in Outcome : NewCall("rmul", self, other, __rmul__(Heap, self, other, One(o)))

Div(self, other) ==
  /\ last = NoCall
  /\ \E o \in Outcome : NewCall("div", self, other, __truediv__(Heap, self, other, One(o)))

Keyed == generate_keypair(<<>>, NoExc)

Init ==
  /\ ctxs = Keyed.ctxs
  /\ pubKeys = IF Keyed.exc = NoExc THEN <<Keyed.pub>> ELSE <<>>
  /\ privKeys = IF Keyed.exc = NoExc THEN <<Keyed.priv>> ELSE <<>>
  /\ cts = <<>>
  /\ evs = <<>>
  /\ origin = <<>>
  /\ wire = {}
  /\ last = NoCall
  /\ thr = Idle
  /\ run = NoRun

Next ==
  \/ \E k \in 1 .. Len(pubKeys), in \in ScalarInputs, o \in Outcome : Encrypt(k, in, o)
  \/ \E k \in 1 .. Len(privKeys), v \in 1 .. Len(evs), o \in Outcome : Decrypt(k, v, o)
  \/ \E self \in 1 .. Len(evs), other \in Operands : Add(self, other, Scheds)
  \/ \E self \in 1 .. Len(evs), other \in PlainOperands : RAdd(self, other)
  \/ \E self \in 1 .. Len(evs), other \in Operands : Sub(self, other, Scheds)
  \/ \E self \in 1 .. Len(evs), other \in Operands : RSub(self, other)
  \/ \E self \in 1 .. Len(evs), other \in Operands : Mul(self, other, Outcome)
  \/ \E self \in 1 .. Len(evs), other \in PlainOperands : RMul(self, other)
  \/ \E self \in 1 .. Len(evs), other \in Operands : Div(self, other)
  \/ Forget

Spec == Init /\ [][Next]_vars

--------------------------------------------------------------------------
(* Keys and pickling: SpecKeys starts with no key at all.  A pickled state *)
(* in flight is [cls, ctx, vec, depth]: the class it restores, the context *)
(* bytes and, for a vector, the ciphertext bytes and the depth; the party  *)
(* that unpickles it takes it off the wire.                                *)

Blob(cls, c, v, d) == [cls |-> cls, ctx |-> c, vec |-> v, depth |-> d]

Generate(o) ==
  /\ last = NoCall
  /\ Len(ctxs) + 2 <= MaxCtx
  /\ LET r == generate_keypair(ctxs, o)
     IN  /\ ctxs' = r.ctxs
         /\ pubKeys' = IF r.exc = NoExc THEN Append(pubKeys, r.pub) ELSE pubKeys
         /\ privKeys' = IF r.exc = NoExc THEN Append(privKeys, r.priv) ELSE privKeys
  /\ UNCHANGED <<cts, evs, origin, wire, last, thr, run>>

DumpPublicKey(k) ==
  /\ last = NoCall
  /\ Cardinality(wire) < MaxWire
  /\ wire' = wire \cup {Blob("CKKSPublicKey", CKKSPublicKey_getstate(ctxs[pubKeys[k]]), NoVec, 0)}
  /\ UNCHANGED <<ctxs, pubKeys, privKeys, cts, evs, origin, last, thr, run>>

LoadPublicKey(b) ==
  /\ last = NoCall
  /\ b.cls = "CKKSPublicKey"
  /\ Len(ctxs) < MaxCtx
  /\ ctxs' = Append(ctxs, CKKSPublicKey_setstate(b.ctx))
  /\ pubKeys' = Append(pubKeys, Len(ctxs) + 1)
  /\ wire' = wire \ {b}
  /\ UNCHANGED <<privKeys, cts, evs, origin, last, thr, run>>

DumpPrivateKey(k) ==
  /\ last = NoCall
  /\ Cardinality(wire) < MaxWire
  /\ wire' = wire \cup {Blob("CKKSPrivateKey", CKKSPrivateKey_getstate(ctxs[privKeys[k]]), NoVec, 0)}
  /\ UNCHANGED <<ctxs, pubKeys, privKeys, cts, evs, origin, last, thr, run>>

LoadPrivateKey(b) ==
  /\ last = NoCall
  /\ b.cls = "CKKSPrivateKey"
  /\ Len(ctxs) < MaxCtx
  /\ ctxs' = Append(ctxs, CKKSPrivateKey_setstate(b.ctx))
  /\ privKeys' = Append(privKeys, Len(ctxs) + 1)
  /\ wire' = wire \ {b}
  /\ UNCHANGED <<pubKeys, cts, evs, origin, last, thr, run>>

DumpVector(v) ==
  /\ last = NoCall
  /\ Cardinality(wire) < MaxWire
  /\ LET st == CKKSEncryptedVector_getstate(Heap, v)
     IN  wire' = wire \cup {Blob("CKKSEncryptedVector", st.ctx, st.vec, st.depth)}
  /\ UNCHANGED <<ctxs, pubKeys, privKeys, cts, evs, origin, last, thr, run>>

LoadVector(b) ==
  /\ last = NoCall
  /\ b.cls = "CKKSEncryptedVector"
  /\ Len(ctxs) < MaxCtx
  /\ Len(evs) < MaxVec
  /\ LET r == CKKSEncryptedVector_setstate(Heap, b)
     IN  /\ ctxs' = r.ctxs
         /\ evs' = r.evs
         /\ cts' = r.cts
  /\ origin' = Append(origin, Derived)
  /\ wire' = wire \ {b}
  /\ UNCHANGED <<pubKeys, privKeys, last, thr, run>>

InitKeys ==
  /\ ctxs = <<>>
  /\ pubKeys = <<>>
  /\ privKeys = <<>>
  /\ cts = <<>>
  /\ evs = <<>>
  /\ origin = <<>>
  /\ wire = {}
  /\ last = NoCall
  /\ thr = Idle
  /\ run = NoRun

NextKeys ==
  \/ \E o \in {NoExc, OtherRuntime} : Generate(o)
  \/ \E k \in 1 .. Len(pubKeys) : Encrypt(k, Scalar(1), NoExc)
  \/ \E self, other \in 1 .. Len(evs) : Add(self, Ct(other), {One(NoExc), One(TransparentFault)})
  \/ \E self, other \in 1 .. Len(evs) : Mul(self, Ct(other), {NoExc})
  \/ \E k \in 1 .. Len(pubKeys) : DumpPublicKey(k)
  \/ \E b \in wire : LoadPublicKey(b)
  \/ \E k \in 1 .. Len(privKeys) : DumpPrivateKey(k)
  \/ \E b \in wire : LoadPrivateKey(b)
  \/ \E v \in 1 .. Len(evs) : DumpVector(v)
  \/ \E b \in wire : LoadVector(b)
  \/ Forget

SpecKeys == InitKeys /\ [][NextKeys]_vars

--------------------------------------------------------------------------
(* The shape of what decrypt returns: SpecShape encrypts scalars and       *)
(* sequences of every length up to MaxLen and decrypts them.               *)

RECURSIVE SeqsOf(_, _)
SeqsOf(S, n) ==
  IF n = 0 THEN {<<>>}
  ELSE LET shorter == SeqsOf(S, n - 1)
       IN  shorter \cup {Append(q, x) : q \in {r \in shorter : Len(r) = n - 1}, x \in S}

Inputs ==
  {Scalar(x) : x \in Val \cup {NonReal}}
    \cup {Vector(xs) : xs \in SeqsOf(Val \cup {NonReal}, MaxLen)}

NextShape ==
  \/ \E k \in 1 .. Len(pubKeys), in \in Inputs, o \in Outcome : Encrypt(k, in, o)
  \/ \E k \in 1 .. Len(privKeys), v \in 1 .. Len(evs), o \in Outcome : Decrypt(k, v, o)
  \/ Forget

SpecShape == Init /\ [][NextShape]_vars

--------------------------------------------------------------------------
(* Two threads on shared instances: SpecConc.  Three vectors a, b1, b2 are *)
(* encrypted; first both threads multiply a and b1 (thread 1 a * b1, thread *)
(* 2 b1 * a), then, both products returned, thread t adds b_t to a or      *)
(* subtracts it from a, as run.ops[t] says.  A call is four steps, between *)
(* which the other thread may run: the receiver's field is read, the       *)
(* operand's field is read, the backend computes, the result is stored.    *)
(* With run.locked the callers serialize the add/subtract calls by a lock  *)
(* of their own.                                                           *)

Shared == 1
AccOther(t) == 1 + t
MulSelf(t) == IF t = 1 THEN 1 ELSE 2
MulOther(t) == IF t = 1 THEN 2 ELSE 1

OpOf(t) == IF run.phase = "mul" THEN "mul" ELSE run.ops[t]
SelfOf(t) == IF run.phase = "mul" THEN MulSelf(t) ELSE Shared
OtherOf(t) == IF run.phase = "mul" THEN MulOther(t) ELSE AccOther(t)

(* A slip: the product is computed into the receiver's ciphertext.         *)
compute_in_place(op, c, x, y) ==
  [cts |-> [c EXCEPT ![x] = ckks_op(op, c[x], c[y], NoExc).v], z |-> x]

(* The backend call of a step on the objects x and y of the heap c: += is  *)
(* in place and yields x itself, - and * yield a new object.               *)
compute(op, c, x, y) ==
  IF op = "add"
  THEN [cts |-> ckks_iop("add", c, x, c[y], NoExc, FALSE).cts, z |-> x]
  ELSE [cts |-> Append(c, ckks_op(op, c[x], c[y], NoExc).v), z |-> FreshId(c)]

(* What the last step of a call leaves: __mul__ wraps the product in a new *)
(* instance, __add__ and __sub__ assign to the receiver's field.           *)
store(op, e, self, z) ==
  IF op = "mul"
  THEN [evs |-> Append(e, [ct |-> z, ctx |-> e[self].ctx, depth |-> mul_depth(e[self].depth)]),
        ret |-> Len(e) + 1]
  ELSE [evs |-> [e EXCEPT ![self].ct = z], ret |-> self]

Acquire(t) ==
  /\ thr[t].pc = "acquire"
  /\ run.lock = 0
  /\ run' = [run EXCEPT !.lock = t]
  /\ thr' = [thr EXCEPT ![t].pc = "load_self"]
  /\ UNCHANGED <<ctxs, pubKeys, privKeys, cts, evs, origin, wire, last>>

LoadSelf(t) ==
  /\ thr[t].pc = "load_self"
  /\ thr' = [thr EXCEPT ![t].pc = "load_other", ![t].x = evs[SelfOf(t)].ct]
  /\ UNCHANGED <<ctxs, pubKeys, privKeys, cts, evs, origin, wire, last, run>>

LoadOther(t) ==
  /\ thr[t].pc = "load_other"
  /\ thr' = [thr EXCEPT ![t].pc = "compute", ![t].y = evs[OtherOf(t)].ct]
  /\ UNCHANGED <<ctxs, pubKeys, privKeys, cts, evs, origin, wire, last, run>>

Compute(t) ==
  /\ thr[t].pc = "compute"
  /\ LET r == compute(OpOf(t), cts, thr[t].x, thr[t].y)
     IN  /\ cts' = r.cts
         /\ thr' = [thr EXCEPT ![t].pc = "store", ![t].z = r.z]
  /\ UNCHANGED <<ctxs, pubKeys, privKeys, evs, origin, wire, last, run>>

Store(t) ==
  /\ thr[t].pc = "store"
  /\ LET r == store(OpOf(t), evs, SelfOf(t), thr[t].z)
     IN  /\ evs' = r.evs
         /\ thr' = [thr EXCEPT ![t].pc = "done", ![t].ret = r.ret]
  /\ run' = IF run.lock = t THEN [run EXCEPT !.lock = 0] ELSE run
  /\ UNCHANGED <<ctxs, pubKeys, privKeys, cts, origin, wire, last>>

(* Both products are returned: the threads go on to the add/subtract calls *)
Join ==
  /\ run.phase = "mul"
  /\ \A t \in Threads : thr[t].pc = "done"
  /\ run' = [run EXCEPT !.phase = "acc"]
  /\ thr' = [t \in Threads |->
               [thr[t] EXCEPT !.pc = IF run.locked THEN "acquire" ELSE "load_self",
                              !.prod = thr[t].ret, !.ret = 0]]
  /\ UNCHANGED <<ctxs, pubKeys, privKeys, cts, evs, origin, wire, last>>

Encrypted(H, x) ==
  LET r == encrypt(H, Keyed.pub, Scalar(x), NoExc)
  IN  [ctxs |-> H.ctxs, evs |-> r.evs, cts |-> r.cts]

InitConc ==
  \E va \in Val, vb \in [Threads -> Val], ops \in [Threads -> {"add", "sub"}], lk \in BOOLEAN :
    LET H == Encrypted(Encrypted(Encrypted([ctxs |-> Keyed.ctxs, evs |-> <<>>, cts |-> <<>>],
                                           va), vb[1]), vb[2])
    IN  /\ ctxs = Keyed.ctxs
        /\ pubKeys = <<Keyed.pub>>
        /\ privKeys = <<Keyed.priv>>
        /\ cts = H.cts
        /\ evs = H.evs
        /\ origin = <<>>
        /\ wire = {}
        /\ last = NoCall
        /\ thr = [t \in Threads |-> [Idle[t] EXCEPT !.pc = "load_self"]]
        /\ run = [ops |-> ops, locked |-> lk, lock |-> 0, phase |-> "mul",
                  a0 |-> va, b0 |-> vb]

NextConc ==
  \/ \E t \in Threads : Acquire(t)
  \/ \E t \in Threads : LoadSelf(t)
  \/ \E t \in Threads : LoadOther(t)
  \/ \E t \in Threads : Compute(t)
  \/ \E t \in Threads : Store(t)
  \/ Join

SpecConc == InitConc /\ [][NextConc]_vars

--------------------------------------------------------------------------
(* Properties of the arithmetic, checked under Spec.  last.pre is the heap *)
(* before the call, last.self the receiver, last.other the operand.        *)

Returned == last.op # "none" /\ last.exc = NoExc
PreVec(i) == last.pre.cts[last.pre.evs[i].ct]
NowVec(i) == cts[evs[i].ct]
Unchanged(i) == evs[i] = last.pre.evs[i] /\ NowVec(i) = PreVec(i)
Multiplying == last.op \in {"mul", "rmul", "div"}
Accumulating == last.op \in {"add", "radd", "sub"}
OtherVec == IF last.other.kind = "ct" THEN PreVec(last.other.id) ELSE PlainVec(last.other)

(* C1: a vector returned by encrypt has depth 0; the vector returned by a  *)
(* multiplication has the receiver's depth before the call plus one; the   *)
(* vector returned by add or subtract has the receiver's depth before the  *)
(* call, whatever the operand.                                             *)
C1_DepthRule ==
  /\ (last.op = "encrypt" /\ Returned) => evs[last.ret].depth = 0
  /\ (Multiplying /\ Returned) =>
        evs[last.ret].depth = last.pre.evs[last.self].depth + 1
  /\ (Accumulating /\ Returned) =>
        evs[last.ret].depth = last.pre.evs[last.self].depth

(* A multiplication by a deeper ciphertext has returned.                   *)
C1_Witness ==
  /\ last.op = "mul" /\ Returned /\ last.other.kind = "ct"
  /\ last.pre.evs[last.other.id].depth > last.pre.evs[last.self].depth

(* C2: multiply, reflected multiply and divide leave every instance that   *)
(* existed before the call as it was (the same ciphertext object with the  *)
(* same content, the same context, the same depth), whether they return or *)
(* raise; what they return is a new instance, distinct from both operands, *)
(* wrapping a ciphertext object of its own.                                *)
C2_MultiplyIsPure ==
  Multiplying =>
    /\ \A i \in 1 .. Len(last.pre.evs) : Unchanged(i)
    /\ Returned =>
         /\ Len(evs) = Len(last.pre.evs) + 1
         /\ last.ret = Len(evs)
         /\ last.ret # last.self
         /\ last.other.kind = "ct" => last.ret # last.other.id
         /\ \A i \in 1 .. Len(last.pre.evs) : evs[i].ct # evs[last.ret].ct
    /\ ~Returned => Len(evs) = Len(last.pre.evs) /\ last.ret = 0

(* The product of two distinct instances has been returned.                *)
C2_Witness ==
  /\ last.op = "mul" /\ Returned
  /\ last.other.kind = "ct" /\ last.other.id # last.self

(* C3: add and subtract return the receiver itself and create no instance; *)
(* the receiver keeps its context and depth and, when the backend raised   *)
(* nothing, holds the sum (the difference); every other instance, the      *)
(* operand included, is as it was.                                         *)
C3_AccumulateInPlace ==
  (Accumulating /\ Returned) =>
    /\ last.ret = last.self
    /\ Len(evs) = Len(last.pre.evs)
    /\ evs[last.self].ctx = last.pre.evs[last.self].ctx
    /\ evs[last.self].depth = last.pre.evs[last.self].depth
    /\ last.calls = <<NoExc>> =>
         NowVec(last.self).val =
           ElemOp(IF last.op = "sub" THEN "sub" ELSE "add", PreVec(last.self).val, OtherVec.val)
    /\ \A i \in 1 .. Len(evs) : i # last.self => Unchanged(i)

(* A subtraction of another instance has changed the receiver's value.     *)
C3_Witness ==
  /\ last.op = "sub" /\ Returned
  /\ last.other.kind = "ct" /\ last.other.id # last.self
  /\ NowVec(last.self).val # PreVec(last.self).val

(* C4: when the first attempt of a ciphertext-ciphertext add or subtract   *)
(* raises the transparent-ciphertext fault and the retry's backend calls   *)
(* succeed, the call returns the receiver, which then holds the sum (the   *)
(* difference) of the two values before the call, at the same depth.       *)
Recovered ==
  /\ last.op \in {"add", "sub"} /\ last.other.kind = "ct"
  /\ last.calls = <<TransparentFault, NoExc, NoExc, NoExc>>

C4_RecoveryKeepsValue ==
  Recovered =>
    /\ last.exc = NoExc
    /\ last.ret = last.self
    /\ evs[last.self].depth = last.pre.evs[last.self].depth
    /\ NowVec(last.self).val = ElemOp(last.op, PreVec(last.self).val, OtherVec.val)

(* C5: a backend fault either is the transparent-ciphertext RuntimeError   *)
(* raised by the first attempt of a ciphertext-ciphertext add or subtract, *)
(* or it is the last thing the call did and the call raises that very      *)
(* fault and returns nothing; a call makes at most one retry (at most four *)
(* backend calls), and a call that returns normally ended with a backend   *)
(* call that succeeded.                                                    *)
C5_OnlyTransparentHandled ==
  /\ \A i \in 1 .. Len(last.calls) :
       last.calls[i] # NoExc =>
         \/ /\ i = Len(last.calls)
            /\ last.exc = last.calls[i]
            /\ last.ret = 0
         \/ /\ i = 1
            /\ last.op \in {"add", "sub"}
            /\ last.other.kind = "ct"
            /\ last.calls[1] = TransparentFault
  /\ Len(last.calls) <= 4
  /\ Len(last.calls) > 1 => last.calls[1] = TransparentFault
  /\ (last.exc = NoExc /\ Len(last.calls) > 0) => last.calls[Len(last.calls)] = NoExc

(* The retry of an add has itself failed, and the call raised that fault.  *)
C5_Witness ==
  /\ last.op = "add"
  /\ last.calls = <<TransparentFault, NoExc, NoExc, OtherRuntime>>
  /\ last.exc = OtherRuntime

(* C6: reverse-subtract returns a new instance and leaves the receiver     *)
(* holding what it held.                                                   *)
C6_ReverseSubtractIsPure ==
  (last.op = "rsub" /\ Returned) =>
    /\ last.ret # last.self
    /\ Unchanged(last.self)

(* C10 as claimed: the depth counter is never smaller than the number of   *)
(* levels the wrapped ciphertext has consumed.                             *)
C10_DepthCoversLevel == \A i \in 1 .. Len(evs) : evs[i].depth >= NowVec(i).lvl

(* C10 as amended: the depth counter is never larger than the number of    *)
(* levels the wrapped ciphertext has consumed.                             *)
C10_DepthBelowLevel == \A i \in 1 .. Len(evs) : evs[i].depth <= NowVec(i).lvl

(* An add has brought a deeper operand's levels into a receiver whose      *)
(* counter stays behind.                                                   *)
C10_Witness ==
  /\ last.op = "add" /\ Returned /\ last.other.kind = "ct"
  /\ evs[last.self].depth < NowVec(last.self).lvl
  /\ last.pre.evs[last.self].depth = PreVec(last.self).lvl

--------------------------------------------------------------------------
(* Properties of the keys, checked under SpecKeys.                         *)

(* C7: the context of every public key and of every vector holds no secret *)
(* key, and that of a public key holds the public key it encrypts with;    *)
(* the pickled state of a public key or of a vector holds no secret key;   *)
(* the secret key is held by the contexts of the private keys, each an     *)
(* object of its own, and by their pickled states, and by nothing else.    *)
C7_SecretStaysPrivate ==
  /\ \A k \in 1 .. Len(pubKeys) :
       ~ctxs[pubKeys[k]].secret /\ ctxs[pubKeys[k]].public
  /\ \A v \in 1 .. Len(evs) : ~ctxs[evs[v].ctx].secret
  /\ \A b \in wire : b.ctx.secret <=> b.cls = "CKKSPrivateKey"
  /\ \A k \in 1 .. Len(privKeys) : ctxs[privKeys[k]].secret
  /\ \A c \in 1 .. Len(ctxs) :
       ctxs[c].secret => \E k \in 1 .. Len(privKeys) : privKeys[k] = c

(* A public key rebuilt from its pickled state has encrypted a vector, a   *)
(* product of which is pickled in turn.                                    *)
C7_Witness ==
  /\ Len(pubKeys) >= 2
  /\ \E v \in 1 .. Len(evs) : evs[v].ctx = pubKeys[2] /\ evs[v].depth = 0
  /\ \E v \in 1 .. Len(evs) : evs[v].ctx = pubKeys[2] /\ evs[v].depth = 1
  /\ \E b \in wire : b.cls = "CKKSEncryptedVector" /\ b.depth = 1

--------------------------------------------------------------------------
(* Properties of the shapes, checked under SpecShape.                      *)

(* C8 as claimed: decrypt(encrypt(v)) is a scalar for a scalar v and a     *)
(* sequence of the length of v for a sequence v.                           *)
C8_ShapeMirrorsInput ==
  (last.op = "decrypt" /\ Returned) =>
    /\ origin[last.self].kind = "scalar" => last.value.kind = "scalar"
    /\ origin[last.self].kind = "seq" =>
         /\ last.value.kind = "seq"
         /\ Len(last.value.data) = origin[last.self].len

(* C8 as amended: decrypt returns a scalar exactly when the decrypted      *)
(* sequence has length 1, so decrypt(encrypt(v)) is a scalar for a scalar  *)
(* v and for a sequence v of length 1, and a sequence of the length of v   *)
(* for any other sequence v.                                               *)
C8_ShapeFollowsLength ==
  (last.op = "decrypt" /\ Returned) =>
    /\ last.value.kind = "scalar" <=> Len(NowVec(last.self).val) = 1
    /\ last.value.kind = "scalar" => last.value.data = NowVec(last.self).val[1]
    /\ last.value.kind = "seq" => last.value.data = NowVec(last.self).val
    /\ origin[last.self].kind = "scalar" => last.value.kind = "scalar"
    /\ (origin[last.self].kind = "seq" /\ origin[last.self].len = 1) =>
         last.value.kind = "scalar"
    /\ (origin[last.self].kind = "seq" /\ origin[last.self].len # 1) =>
         /\ last.value.kind = "seq"
         /\ Len(last.value.data) = origin[last.self].len

(* The encryption of a sequence of one number has been decrypted.          *)
C8_Witness ==
  /\ last.op = "decrypt" /\ Returned
  /\ origin[last.self].kind = "seq" /\ origin[last.self].len = 1

--------------------------------------------------------------------------
(* Properties of the concurrent run, checked under SpecConc.               *)

AllDone == \A t \in Threads : thr[t].pc = "done"
FinalValue == NowVec(Shared).val[1]
Update(t, v) == Apply(run.ops[t], v, run.b0[t])
Sequential == Update(2, Update(1, run.a0))
Product(t) == IF run.phase = "mul" THEN thr[t].ret ELSE thr[t].prod
Initial(i) == IF i = Shared THEN run.a0 ELSE run.b0[i - 1]

(* C9: while and after the two multiply calls run concurrently the shared  *)
(* operands are what they were, and once both have returned the products   *)
(* are two distinct new instances holding a * b1 at depth 1, as after      *)
(* running them one after the other; add/subtract calls on the shared      *)
(* instance that the callers serialize leave it holding the value of the   *)
(* sequential orders, the operands unchanged.  (That unserialized calls    *)
(* can lose an update is the reachability of C9_Witness.)                  *)
C9_SingleWriterRule ==
  /\ run.phase = "mul" =>
       \A i \in 1 .. 3 :
         evs[i] = [ct |-> i, ctx |-> Keyed.pub, depth |-> 0] /\ cts[i].val = <<Initial(i)>>
  /\ (run.phase = "acc" \/ AllDone) =>
       /\ Product(1) # Product(2)
       /\ \A t \in Threads :
            /\ Product(t) > 3
            /\ evs[Product(t)].depth = 1
            /\ NowVec(Product(t)).val = <<Apply("mul", run.a0, run.b0[1])>>
            /\ \A i \in 1 .. Len(evs) : i # Product(t) => evs[i].ct # evs[Product(t)].ct
  /\ (run.phase = "acc" /\ run.locked /\ AllDone) =>
       /\ FinalValue = Sequential
       /\ \A t \in Threads : NowVec(AccOther(t)).val = <<run.b0[t]>>

(* Both products are right, and the unserialized add/subtract calls have   *)
(* returned with one of the two updates lost.                              *)
C9_Witness ==
  /\ run.phase = "acc" /\ ~run.locked /\ AllDone
  /\ FinalValue # Sequential
  /\ FinalValue \in {Update(1, run.a0), Update(2, run.a0)}
  /\ \A t \in Threads : NowVec(thr[t].prod).val = <<Apply("mul", run.a0, run.b0[1])>>

==========================================================================
